---- MODULE Spec2Model ----
(***************************************************************************)
(* State-machine model of the Broadcom APDS-9960 ambient-light driver      *)
(* (modules/drivers/sensors/apds9960/apds9960.js): the Sensor class with   *)
(* its private fields, the chip registers behind the bus channel, and one  *)
(* action per public operation (constructor, configure, sample, close).    *)
(***************************************************************************)
EXTENDS Integers, Sequences, FiniteSets, TLC

VARIABLES
    phase,          \* "new" before construction, "ready" after it, "failed" when the constructor threw
    io,             \* TRUE while this.#io holds the bus channel object
    monitor,        \* TRUE while this.#monitor holds the alert input object
    channel,        \* the bus channel resource: "unacquired", "open", "closed"
    pin,            \* the alert input resource: "unacquired", "open", "closed"
    configuration,  \* this.#configuration
    maxCount,       \* this.#maxCount
    chip,           \* the chip's writable registers, by address
    closeCalls,     \* close() calls made by the application so far (capped)
    last            \* the call that has just ended, until the application takes its outcome

vars == <<phase, io, monitor, channel, pin, configuration, maxCount, chip, closeCalls, last>>

\* ------------------------------------------------------------------------
\* Registers and the bus channel
\* ------------------------------------------------------------------------
Register ==
    [AILTL |-> 132, AIHTL |-> 134, PERS |-> 140, ENABLE |-> 128, ATIME |-> 129,
     WTIME |-> 131, CONTROLONE |-> 143, ID |-> 146, STATUS |-> 147,
     CDATAL |-> 148, CDATAH |-> 149]

\* the register read to clear latched interrupts (0xE7)
ClearInterrupt == 231

\* the identity the constructor expects (0xAB)
ExpectedID == 171

WritableRegisters ==
    {Register.ENABLE, Register.ATIME, Register.AILTL, Register.AIHTL,
     Register.PERS, Register.CONTROLONE}

\* the n-th transaction of a call faults
Faults(env, n) == env.faultAt > 0 /\ (n = env.faultAt \/ (env.sticky /\ n > env.faultAt))

Width(op) == IF op = "writeUint16" THEN 65536 ELSE 256

\* One transaction on this.#io.  A call on an undefined #io is a TypeError;
\* a transport fault throws out of the transaction; a write that succeeds
\* leaves the value, cut to the register's width, in the chip.
BusOp(m, env, op, reg, val) ==
    IF m.thrown # "none" THEN m
    ELSE IF ~m.io THEN [m EXCEPT !.thrown = "TypeError"]
    ELSE IF Faults(env, Len(m.trace) + 1)
         THEN [m EXCEPT !.trace = Append(@, [op |-> op, reg |-> reg, val |-> val, ok |-> FALSE]),
                        !.thrown = "transport fault"]
         ELSE [m EXCEPT !.trace = Append(@, [op |-> op, reg |-> reg, val |-> val, ok |-> TRUE]),
                        !.chip = IF op \in {"writeUint8", "writeUint16"}
                                 THEN [@ EXCEPT ![reg] = val % Width(op)]
                                 ELSE @]

\* ------------------------------------------------------------------------
\* configure
\* ------------------------------------------------------------------------
OptionNames ==
    {"enableALS", "on", "alsIntegrationCycles", "alsGain", "proximityGain",
     "alsThresholdHigh", "alsThresholdLow", "alsThresholdPersistence",
     "proximityThresholdPersistence"}

Has(options, name) == name \in options.supplied

NoOptions ==
    [supplied |-> {}, enableALS |-> FALSE, on |-> FALSE, alsIntegrationCycles |-> 0,
     alsGain |-> 0, proximityGain |-> 0, alsThresholdHigh |-> 0, alsThresholdLow |-> 0,
     alsThresholdPersistence |-> 0, proximityThresholdPersistence |-> 0]

\* the result of apersFromCycles: a bare return is undefined
Undefined == [defined |-> FALSE, value |-> 0]
Value(v) == [defined |-> TRUE, value |-> v]

\* apersFromCycles without the multiple-of-5 test
apersFromCycles_AnyCount(cycles) ==
    IF cycles < 0 \/ cycles > 60 THEN Undefined
    ELSE IF cycles <= 3 THEN Value(cycles)
    ELSE Value((cycles \div 5) + 3)

apersFromCycles(cycles) ==
    IF cycles < 0 \/ cycles > 60 THEN Undefined
    ELSE IF cycles > 3 /\ (cycles % 5) # 0 THEN Undefined
    ELSE IF cycles <= 3 THEN Value(cycles)
    ELSE Value((cycles \div 5) + 3)

Throw(m, message) == [m EXCEPT !.thrown = message]

\* the power-on flag assigned without the test for a supplied option
CfgFlags_AlwaysPower(m, options) ==
    LET a == IF Has(options, "enableALS")
             THEN [m EXCEPT !.configuration.enabled.AEN = options.enableALS] ELSE m
    IN  [a EXCEPT !.configuration.enabled.PON = options.on]

\* lines 128-134
CfgFlags(m, options) ==
    LET a == IF Has(options, "enableALS")
             THEN [m EXCEPT !.configuration.enabled.AEN = options.enableALS] ELSE m
    IN  IF Has(options, "on")
        THEN [a EXCEPT !.configuration.enabled.PON = options.on] ELSE a

\* lines 136-142
CfgGainStore(m, options) ==
    LET a == IF Has(options, "alsGain")
             THEN [m EXCEPT !.configuration.alsGain = options.alsGain] ELSE m
    IN  IF Has(options, "proximityGain")
        THEN [a EXCEPT !.configuration.proximityGain = options.proximityGain] ELSE a

AlsGainField == [g \in {1, 4, 16, 64} |-> CASE g = 1 -> 0 [] g = 4 -> 1 [] g = 16 -> 2 [] g = 64 -> 3]
\* the proximity gain code left in bits 0-1
ProximityGainField_Unshifted ==
    [g \in {1, 2, 4, 8} |-> CASE g = 1 -> 0 [] g = 2 -> 1 [] g = 4 -> 2 [] g = 8 -> 3]

ProximityGainField == [g \in {1, 2, 4, 8} |-> CASE g = 1 -> 0 [] g = 2 -> 4 [] g = 4 -> 8 [] g = 8 -> 12]

\* lines 144-185
CfgGainWrite(m, options, env) ==
    IF m.thrown # "none" THEN m
    ELSE IF ~(Has(options, "alsGain") \/ Has(options, "proximityGain")) THEN m
    ELSE IF m.configuration.alsGain \notin DOMAIN AlsGainField
         THEN Throw(m, "invalid alsGain setting")
    ELSE IF m.configuration.proximityGain \notin DOMAIN ProximityGainField
         THEN Throw(m, "invalid proximityGain setting")
    ELSE BusOp(m, env, "writeUint8", Register.CONTROLONE,
               AlsGainField[m.configuration.alsGain]
                 + ProximityGainField[m.configuration.proximityGain])

\* the integration time written as 255 - cycles
CfgCycles_OffByOne(m, options, env) ==
    IF m.thrown # "none" THEN m
    ELSE IF ~Has(options, "alsIntegrationCycles") THEN m
    ELSE IF options.alsIntegrationCycles > 256 \/ options.alsIntegrationCycles < 0
         THEN Throw(m, "invalid alsIntegrationCycles setting")
    ELSE BusOp([m EXCEPT !.configuration.alsIntegrationCycles = options.alsIntegrationCycles,
                         !.maxCount = 1025 * options.alsIntegrationCycles],
               env, "writeUint8", Register.ATIME, 255 - options.alsIntegrationCycles)

\* lines 187-195
CfgCycles(m, options, env) ==
    IF m.thrown # "none" THEN m
    ELSE IF ~Has(options, "alsIntegrationCycles") THEN m
    ELSE IF options.alsIntegrationCycles > 256 \/ options.alsIntegrationCycles < 0
         THEN Throw(m, "invalid alsIntegrationCycles setting")
    ELSE BusOp([m EXCEPT !.configuration.alsIntegrationCycles = options.alsIntegrationCycles,
                         !.maxCount = 1025 * options.alsIntegrationCycles],
               env, "writeUint8", Register.ATIME, 256 - options.alsIntegrationCycles)

\* lines 199-204
CfgThresholdLow(m, options, env) ==
    IF m.thrown # "none" THEN m
    ELSE IF ~Has(options, "alsThresholdLow") THEN m
    ELSE IF options.alsThresholdLow < 0 \/ options.alsThresholdLow > 65535
         THEN Throw(m, "invalid alsThresholdLow")
    ELSE BusOp([m EXCEPT !.configuration.alsThresholdLow = options.alsThresholdLow,
                         !.configuration.unset = @ \ {"alsThresholdLow"}],
               env, "writeUint16", Register.AILTL, options.alsThresholdLow)

\* lines 206-211
CfgThresholdHigh(m, options, env) ==
    IF m.thrown # "none" THEN m
    ELSE IF ~Has(options, "alsThresholdHigh") THEN m
    ELSE IF options.alsThresholdHigh < 0 \/ options.alsThresholdHigh > 65535
         THEN Throw(m, "invalid thresholdHigh")
    ELSE BusOp([m EXCEPT !.configuration.alsThresholdHigh = options.alsThresholdHigh,
                         !.configuration.unset = @ \ {"alsThresholdHigh"}],
               env, "writeUint16", Register.AIHTL, options.alsThresholdHigh)

\* lines 213-232.  An unset stored persistence is undefined: undefined << 4 is 0,
\* apersFromCycles(undefined) is NaN, and (PPERS | NaN) and (PPERS | undefined)
\* are both PPERS.
CfgPersistence(m, options, env) ==
    IF m.thrown # "none" THEN m
    ELSE IF ~(Has(options, "proximityThresholdPersistence") \/ Has(options, "alsThresholdPersistence"))
         THEN m
    ELSE
      LET APERS == IF Has(options, "alsThresholdPersistence")
                   THEN apersFromCycles(options.alsThresholdPersistence)
                   ELSE IF "alsThresholdPersistence" \in m.configuration.unset
                        THEN Undefined
                        ELSE apersFromCycles(m.configuration.alsThresholdPersistence)
          a == IF Has(options, "alsThresholdPersistence")
               THEN [m EXCEPT !.configuration.alsThresholdPersistence = options.alsThresholdPersistence,
                              !.configuration.unset = @ \ {"alsThresholdPersistence"}]
               ELSE m
          b == IF Has(options, "proximityThresholdPersistence")
               THEN [a EXCEPT !.configuration.proximityThresholdPersistence =
                                   options.proximityThresholdPersistence,
                              !.configuration.unset = @ \ {"proximityThresholdPersistence"}]
               ELSE a
          PPERS == IF "proximityThresholdPersistence" \in b.configuration.unset
                   THEN 0
                   ELSE b.configuration.proximityThresholdPersistence * 16
      IN  IF Has(options, "alsThresholdPersistence") /\ ~APERS.defined
          THEN Throw(m, "invalid alsThresholdPersistence")
          ELSE IF Has(options, "proximityThresholdPersistence")
                  /\ (options.proximityThresholdPersistence < 0
                      \/ options.proximityThresholdPersistence > 15)
               THEN Throw(a, "invalid proximityThresholdPersistence")
          ELSE BusOp(b, env, "writeUint8", Register.PERS,
                     PPERS + (IF APERS.defined THEN APERS.value ELSE 0))

\* the interrupt enable recomputed without the read that clears the interrupt
CfgInterruptEnable_NoClear(m, options, env) ==
    IF m.thrown # "none" THEN m
    ELSE IF ~(Has(options, "alsThresholdLow") \/ Has(options, "alsThresholdHigh")) THEN m
    ELSE
      LET c == m.configuration
          sentinel == /\ "alsThresholdHigh" \notin c.unset /\ c.alsThresholdHigh = 65535
                      /\ "alsThresholdLow" \notin c.unset /\ c.alsThresholdLow = 0
      IN  [m EXCEPT !.configuration.enabled.AIEN = ~sentinel]

\* lines 234-241
CfgInterruptEnable(m, options, env) ==
    IF m.thrown # "none" THEN m
    ELSE IF ~(Has(options, "alsThresholdLow") \/ Has(options, "alsThresholdHigh")) THEN m
    ELSE
      LET c == m.configuration
          sentinel == /\ "alsThresholdHigh" \notin c.unset /\ c.alsThresholdHigh = 65535
                      /\ "alsThresholdLow" \notin c.unset /\ c.alsThresholdLow = 0
      IN  BusOp([m EXCEPT !.configuration.enabled.AIEN = ~sentinel],
                env, "readUint8", ClearInterrupt, 0)

Bit(flag, weight) == IF flag THEN weight ELSE 0

\* lines 244-265
PackEnable(enabled) ==
    Bit(enabled.GEN, 64) + Bit(enabled.PIEN, 32) + Bit(enabled.AIEN, 16)
      + Bit(enabled.WEN, 8) + Bit(enabled.PEN, 4) + Bit(enabled.AEN, 2) + Bit(enabled.PON, 1)

\* the enable byte rewritten by every call
CfgEnableWrite_Always(m, options, env) ==
    IF m.thrown # "none" THEN m
    ELSE BusOp(m, env, "writeUint8", Register.ENABLE, PackEnable(m.configuration.enabled))

\* lines 243-268
CfgEnableWrite(m, options, env) ==
    IF m.thrown # "none" THEN m
    ELSE IF ~(Has(options, "on") \/ Has(options, "enableALS")
              \/ Has(options, "alsThresholdLow") \/ Has(options, "alsThresholdHigh")) THEN m
    ELSE BusOp(m, env, "writeUint8", Register.ENABLE, PackEnable(m.configuration.enabled))

\* Sensor.configure, lines 122-269
configure(m, options, env) ==
    LET s1 == CfgGainStore(CfgFlags(m, options), options)
        s2 == CfgGainWrite(s1, options, env)
        s3 == CfgCycles(s2, options, env)
        s4 == CfgThresholdLow(s3, options, env)
        s5 == CfgThresholdHigh(s4, options, env)
        s6 == CfgPersistence(s5, options, env)
        s7 == CfgInterruptEnable(s6, options, env)
    IN  CfgEnableWrite(s7, options, env)

\* ------------------------------------------------------------------------
\* close
\* ------------------------------------------------------------------------
\* get configuration, lines 309-311: a copy of the stored configuration
configurationGetter(m) == [name \in DOMAIN m.configuration |-> m.configuration[name]]

\* Sensor.close, lines 300-307
close(m, env) ==
    LET a == IF m.io THEN BusOp(m, env, "writeUint8", Register.ENABLE, 0) ELSE m
    IN  IF a.thrown # "none" THEN a
        ELSE LET b == IF a.io THEN [a EXCEPT !.channel = "closed", !.released = @ \cup {"channel"}]
                      ELSE a
                 c == IF b.monitor THEN [b EXCEPT !.pin = "closed", !.released = @ \cup {"pin"}]
                      ELSE b
             IN  [c EXCEPT !.monitor = FALSE, !.io = FALSE]

\* ------------------------------------------------------------------------
\* sample
\* ------------------------------------------------------------------------
\* what the chip can put in a colour channel: the count saturates at 1025 per
\* integration cycle of the ATIME it holds, and at 16 bits
ChipCeiling(regs) ==
    IF 1025 * (256 - regs[Register.ATIME]) < 65535
    THEN 1025 * (256 - regs[Register.ATIME]) ELSE 65535

\* the 8 bytes of CDATAL..BDATAH for four channel counts, low byte first
Block(raw) == [i \in 0..7 |-> IF i % 2 = 0 THEN raw[(i \div 2) + 1] % 256
                                           ELSE raw[(i \div 2) + 1] \div 256]

\* DataView.getUint16(offset, true)
getUint16(block, offset) == block[offset] + 256 * block[offset + 1]

\* a channel value raw / this.#maxCount, kept as the two operands
Fraction(n, d) == [num |-> n, den |-> d]

NoResult == [kind |-> "none", lightmeter |-> FALSE,
             clear |-> Fraction(0, 1), red |-> Fraction(0, 1),
             green |-> Fraction(0, 1), blue |-> Fraction(0, 1)]

SampleResult(m, env) ==
    [kind |-> "object", lightmeter |-> TRUE,
     clear |-> Fraction(getUint16(Block(env.raw), 0), m.maxCount),
     red   |-> Fraction(getUint16(Block(env.raw), 2), m.maxCount),
     green |-> Fraction(getUint16(Block(env.raw), 4), m.maxCount),
     blue  |-> Fraction(getUint16(Block(env.raw), 6), m.maxCount)]

\* sample that reads STATUS before it looks at the power-on flag
sample_StatusBeforePower(m, env) ==
    LET a == BusOp(m, env, "readUint8", Register.STATUS, env.status)
    IN  IF a.thrown # "none" THEN a
        ELSE IF ~a.configuration.enabled.PON
             THEN [a EXCEPT !.result = [NoResult EXCEPT !.kind = "undefined"]]
        ELSE IF ~(a.configuration.enabled.AEN /\ env.status % 2 = 1)
             THEN [a EXCEPT !.result = [NoResult EXCEPT !.kind = "object"]]
        ELSE LET b == BusOp(a, env, "readBuffer", Register.CDATAL, 0)
             IN  IF b.thrown # "none" THEN b ELSE [b EXCEPT !.result = SampleResult(b, env)]

\* sample that reads the channels whenever STATUS reports fresh data
sample_IgnoreEnableALS(m, env) ==
    IF ~m.configuration.enabled.PON
    THEN [m EXCEPT !.result = [NoResult EXCEPT !.kind = "undefined"]]
    ELSE
      LET a == BusOp(m, env, "readUint8", Register.STATUS, env.status)
      IN  IF a.thrown # "none" THEN a
          ELSE IF ~(env.status % 2 = 1)
               THEN [a EXCEPT !.result = [NoResult EXCEPT !.kind = "object"]]
          ELSE LET b == BusOp(a, env, "readBuffer", Register.CDATAL, 0)
               IN  IF b.thrown # "none" THEN b ELSE [b EXCEPT !.result = SampleResult(b, env)]

\* Sensor.sample, lines 271-298.  env.status is the chip's STATUS register and
\* env.raw its four channel counts at the time of the call.  this.#alsBlock is
\* filled by the burst read before every use, so it carries nothing from one
\* call to the next: SampleResult decodes the block the burst read delivers.
sample(m, env) ==
    IF ~m.configuration.enabled.PON
    THEN [m EXCEPT !.result = [NoResult EXCEPT !.kind = "undefined"]]
    ELSE
      LET a == BusOp(m, env, "readUint8", Register.STATUS, env.status)
      IN  IF a.thrown # "none" THEN a
          ELSE IF ~(a.configuration.enabled.AEN /\ env.status % 2 = 1)
               THEN [a EXCEPT !.result = [NoResult EXCEPT !.kind = "object"]]
          ELSE
            LET b == BusOp(a, env, "readBuffer", Register.CDATAL, 0)
            IN  IF b.thrown # "none" THEN b ELSE [b EXCEPT !.result = SampleResult(b, env)]

\* ------------------------------------------------------------------------
\* constructor
\* ------------------------------------------------------------------------
\* the defaults with the integration time left at one cycle
DefaultOptions_OneCycle ==
    [supplied |-> OptionNames \ {"proximityGain"},
     enableALS |-> TRUE, on |-> TRUE, alsIntegrationCycles |-> 1, alsGain |-> 1,
     proximityGain |-> 0, alsThresholdLow |-> 0, alsThresholdHigh |-> 65535,
     alsThresholdPersistence |-> 1, proximityThresholdPersistence |-> 1]

DefaultOptions ==
    [supplied |-> OptionNames \ {"proximityGain"},
     enableALS |-> TRUE, on |-> TRUE, alsIntegrationCycles |-> 10, alsGain |-> 1,
     proximityGain |-> 0, alsThresholdLow |-> 0, alsThresholdHigh |-> 65535,
     alsThresholdPersistence |-> 1, proximityThresholdPersistence |-> 1]

\* the onReadable handler of the alert input, lines 100-103: m.called counts
\* the invocations of this.#onAlert
onReadable(m, env) ==
    LET a == BusOp(m, env, "readUint8", ClearInterrupt, 0)
    IN  IF a.thrown # "none" THEN a ELSE [a EXCEPT !.called = @ + 1]

\* catch { this.close(); throw new Error(message); }: an exception out of
\* close() leaves the catch block in place of the new Error
CloseAndThrow(m, env, message) ==
    LET a == close([m EXCEPT !.thrown = "none"], env)
    IN  IF a.thrown # "none" THEN a ELSE Throw(a, message)

\* Sensor.constructor, lines 63-120.  env.id is the chip's ID register.
constructor(m, options, env) ==
    LET acquired == [m EXCEPT !.io = TRUE, !.channel = "open"]
        reset == BusOp(BusOp(acquired, env, "writeUint8", Register.ENABLE, 0),
                       env, "writeUint8", Register.ENABLE, 1)
        ident == BusOp(reset, env, "readUint8", Register.ID, env.id)
        wired == IF options.alert /\ options.onAlert
                 THEN [ident EXCEPT !.monitor = TRUE, !.pin = "open"]
                 ELSE ident
    IN  IF reset.thrown # "none" THEN CloseAndThrow(reset, env, "reset failed")
        ELSE IF ident.thrown # "none" THEN CloseAndThrow(ident, env, "i2c error during id check")
        ELSE IF env.id # ExpectedID THEN CloseAndThrow(ident, env, "unexpected sensor ID")
        ELSE configure(wired, DefaultOptions, env)

\* ------------------------------------------------------------------------
\* The driver object, its environment and the calls made on it
\* ------------------------------------------------------------------------
\* close() calls are counted up to this many
MaxCloseCalls == 2

\* the most options one configure call of the application supplies
MaxSupplied == 2

\* The values the application passes for each option: legal ones and, for each
\* validated option, values on both sides of its limits.  An option with no
\* values is one the application does not supply.
NoValues ==
    [enableALS |-> {}, on |-> {}, alsIntegrationCycles |-> {}, alsGain |-> {},
     proximityGain |-> {}, alsThresholdLow |-> {}, alsThresholdHigh |-> {},
     alsThresholdPersistence |-> {}, proximityThresholdPersistence |-> {}]

\* power, ALS enable, the gains and the integration time
OptionValues ==
    [NoValues EXCEPT !.enableALS = BOOLEAN, !.on = BOOLEAN,
                     !.alsIntegrationCycles = {0, 256, 257},
                     !.alsGain = {3, 4},
                     !.proximityGain = {3, 8}]

\* the interrupt thresholds, with the options that come after them in configure
ThresholdValues ==
    [NoValues EXCEPT !.on = BOOLEAN,
                     !.alsThresholdLow = {0 - 1, 0, 5, 65536},
                     !.alsThresholdHigh = {0 - 1, 5, 65535, 65536},
                     !.alsThresholdPersistence = {4, 10}]

\* every alsThresholdPersistence from below 0 to above 60, alone or with a
\* proximityThresholdPersistence
MaxPersistence == 62
PersistenceValues ==
    [NoValues EXCEPT !.alsThresholdPersistence = (0 - 2)..MaxPersistence,
                     !.proximityThresholdPersistence = {0, 15, 16}]

\* every alsIntegrationCycles from below 1 to above 256, alone or with enableALS
MaxCycles == 257
CyclesValues ==
    [NoValues EXCEPT !.enableALS = BOOLEAN,
                     !.alsIntegrationCycles = (0 - 1)..MaxCycles]

\* every option, each with a legal value and, where it is validated, an illegal one
AllValues ==
    [enableALS |-> {FALSE}, on |-> BOOLEAN,
     alsIntegrationCycles |-> {1, 257},
     alsGain |-> {3, 4},
     proximityGain |-> {8},
     alsThresholdLow |-> {5, 65536},
     alsThresholdHigh |-> {5, 65535},
     alsThresholdPersistence |-> {4, 10},
     proximityThresholdPersistence |-> {15}]

\* every legal gain of both channels, and an illegal one
GainValues ==
    [NoValues EXCEPT !.alsGain = {1, 3, 4, 16, 64},
                     !.proximityGain = {1, 2, 3, 4, 8}]

Pick(S, name, values, unsupplied) == IF name \in S THEN values ELSE {unsupplied}

\* the option objects that supply exactly the names in S
OptionsOf(S, D) ==
    [supplied : {S},
     enableALS : Pick(S, "enableALS", D.enableALS, FALSE),
     on : Pick(S, "on", D.on, FALSE),
     alsIntegrationCycles : Pick(S, "alsIntegrationCycles", D.alsIntegrationCycles, 0),
     alsGain : Pick(S, "alsGain", D.alsGain, 0),
     proximityGain : Pick(S, "proximityGain", D.proximityGain, 0),
     alsThresholdHigh : Pick(S, "alsThresholdHigh", D.alsThresholdHigh, 0),
     alsThresholdLow : Pick(S, "alsThresholdLow", D.alsThresholdLow, 0),
     alsThresholdPersistence : Pick(S, "alsThresholdPersistence", D.alsThresholdPersistence, 0),
     proximityThresholdPersistence :
         Pick(S, "proximityThresholdPersistence", D.proximityThresholdPersistence, 0)]

\* what the chip's ID and STATUS registers may hold
IDValues == {ExpectedID, 0}
StatusValues == {0, 1, 254}

\* the channel counts the chip may hold: all dark, all saturated, and a mix
RawBlocks(regs) ==
    {<<0, 0, 0, 0>>,
     <<ChipCeiling(regs), ChipCeiling(regs), ChipCeiling(regs), ChipCeiling(regs)>>,
     <<ChipCeiling(regs), 1, 0, ChipCeiling(regs) \div 2>>}

NoFault == [faultAt |-> 0, sticky |-> FALSE, id |-> ExpectedID, status |-> 0,
            raw |-> [i \in 1..4 |-> 0]]

\* the driver object at the start of a call
Self ==
    [io |-> io, monitor |-> monitor, channel |-> channel, pin |-> pin,
     configuration |-> configuration, maxCount |-> maxCount,
     chip |-> chip, trace |-> <<>>, thrown |-> "none", released |-> {}, result |-> NoResult,
     called |-> 0]

\* the driver object and the record of the call, at the end of the call
Commit(m, op, options, wiring, env) ==
    /\ io' = m.io
    /\ monitor' = m.monitor
    /\ channel' = m.channel
    /\ pin' = m.pin
    /\ configuration' = m.configuration
    /\ maxCount' = m.maxCount
    /\ chip' = m.chip
    /\ last' = [op |-> op, options |-> options, status |-> env.status, raw |-> env.raw,
                id |-> env.id, trace |-> m.trace, thrown |-> m.thrown,
                released |-> m.released, result |-> m.result,
                wiring |-> wiring, called |-> m.called]

\* the constructor options alert and onAlert: supplied or not
NoWiring == [alert |-> FALSE, onAlert |-> FALSE]

\* no call has ended that the application has not yet taken the outcome of
NoCall == [op |-> "none", options |-> NoOptions, status |-> 0, raw |-> NoFault.raw,
           id |-> ExpectedID, trace |-> <<>>, thrown |-> "none", released |-> {},
           result |-> NoResult, wiring |-> NoWiring, called |-> 0]

\* lines 41-61, and the chip at power-on
Init ==
    /\ phase = "new"
    /\ io = FALSE
    /\ monitor = FALSE
    /\ channel = "unacquired"
    /\ pin = "unacquired"
    /\ configuration =
         [enabled |-> [GEN |-> FALSE, PIEN |-> FALSE, AIEN |-> FALSE, WEN |-> FALSE,
                       PEN |-> FALSE, AEN |-> FALSE, PON |-> FALSE],
          alsIntegrationCycles |-> 1, alsGain |-> 1, proximityGain |-> 1,
          alsThresholdLow |-> 0, alsThresholdHigh |-> 0,
          alsThresholdPersistence |-> 0, proximityThresholdPersistence |-> 0,
          unset |-> {"alsThresholdLow", "alsThresholdHigh", "alsThresholdPersistence",
                     "proximityThresholdPersistence"}]
    /\ maxCount = 1025
    /\ chip = [r \in WritableRegisters |-> IF r = Register.ATIME THEN 255 ELSE 0]
    /\ closeCalls = 0
    /\ last = NoCall

\* new Sensor(options): the object reaches the application only if the
\* constructor returns
Construct(wiring) ==
    /\ phase = "new"
    /\ last = NoCall
    /\ \E alert \in wiring, onAlert \in wiring, id \in IDValues, sticky \in BOOLEAN :
         LET options == [alert |-> alert, onAlert |-> onAlert]
             quiet == [NoFault EXCEPT !.id = id]
         IN  \E faultAt \in 0..Len(constructor(Self, options, quiet).trace) :
               LET env == [quiet EXCEPT !.faultAt = faultAt, !.sticky = sticky]
                   m == constructor(Self, options, env)
               IN  /\ Commit(m, "constructor", NoOptions, options, env)
                   /\ phase' = IF m.thrown = "none" THEN "ready" ELSE "failed"
    /\ UNCHANGED closeCalls

\* sensor.configure(options), with the options drawn from D, on a bus that may
\* fault (faulty) or does not.  The application configures a sensor it has not
\* closed.
Configure(D, faulty) ==
    /\ phase = "ready"
    /\ last = NoCall
    /\ io
    /\ \E S \in SUBSET OptionNames :
         /\ Cardinality(S) <= MaxSupplied
         /\ \E options \in OptionsOf(S, D) :
              \E faultAt \in 0..(IF faulty THEN Len(configure(Self, options, NoFault).trace) ELSE 0) :
                LET env == [NoFault EXCEPT !.faultAt = faultAt]
                IN  Commit(configure(Self, options, env), "configure", options, NoWiring, env)
    /\ UNCHANGED <<phase, closeCalls>>

\* sensor.sample()
Sample ==
    /\ phase = "ready"
    /\ last = NoCall
    /\ \E status \in StatusValues, raw \in RawBlocks(chip), faultAt \in 0..2 :
         LET env == [NoFault EXCEPT !.status = status, !.raw = raw, !.faultAt = faultAt]
         IN  Commit(sample(Self, env), "sample", NoOptions, NoWiring, env)
    /\ UNCHANGED <<phase, closeCalls>>

\* sensor.close()
Close ==
    /\ phase = "ready"
    /\ last = NoCall
    /\ \E faultAt \in 0..1 :
         LET env == [NoFault EXCEPT !.faultAt = faultAt]
         IN  Commit(close(Self, env), "close", NoOptions, NoWiring, env)
    /\ closeCalls' = IF closeCalls < MaxCloseCalls THEN closeCalls + 1 ELSE closeCalls
    /\ UNCHANGED phase

\* a falling edge on the alert pin: the host delivers it to the handler of an
\* alert input that is open
Alert ==
    /\ pin = "open"
    /\ last = NoCall
    /\ \E faultAt \in 0..1 :
         LET env == [NoFault EXCEPT !.faultAt = faultAt]
         IN  Commit(onReadable(Self, env), "alert", NoOptions, NoWiring, env)
    /\ UNCHANGED <<phase, closeCalls>>

\* the call's return value or exception reaches the application
Return ==
    /\ last # NoCall
    /\ last' = NoCall
    /\ UNCHANGED <<phase, io, monitor, channel, pin, configuration, maxCount, chip, closeCalls>>

Next ==
    Construct(BOOLEAN) \/ Configure(OptionValues, TRUE) \/ Sample \/ Close \/ Alert \/ Return

Spec == Init /\ [][Next]_vars

\* the persistence options over their whole range
NextPersistence == Construct({FALSE}) \/ Configure(PersistenceValues, FALSE) \/ Close \/ Return

SpecPersistence == Init /\ [][NextPersistence]_vars

\* the interrupt thresholds
NextThreshold == Construct({FALSE}) \/ Configure(ThresholdValues, FALSE) \/ Sample \/ Close \/ Return

SpecThreshold == Init /\ [][NextThreshold]_vars

\* the integration time over its whole range
NextCycles == Construct({FALSE}) \/ Configure(CyclesValues, FALSE) \/ Return

SpecCycles == Init /\ [][NextCycles]_vars

\* every option, at most MaxSupplied of them in a call
NextAll == Construct({FALSE}) \/ Configure(AllValues, FALSE) \/ Return

SpecAll == Init /\ [][NextAll]_vars

\* the gains over all their values
NextGain == Construct({FALSE}) \/ Configure(GainValues, FALSE) \/ Return

SpecGain == Init /\ [][NextGain]_vars

\* ------------------------------------------------------------------------
\* Properties
\* ------------------------------------------------------------------------
IsWrite(t) == t.op \in {"writeUint8", "writeUint16"}

\* the transactions of a trace that write register reg, faulted ones included
WritesTo(trace, reg) == {i \in 1..Len(trace) : IsWrite(trace[i]) /\ trace[i].reg = reg}

\* the class of the error object thrown with a message
ErrorClass(message) ==
    IF message \in {"invalid alsThresholdLow", "invalid thresholdHigh",
                    "invalid alsThresholdPersistence", "invalid proximityThresholdPersistence"}
    THEN "RangeError"
    ELSE IF message = "TypeError" THEN "TypeError"
    ELSE IF message = "transport fault" THEN "TransportError"
    ELSE "Error"

BadGain(options) ==
    \/ Has(options, "alsGain") /\ options.alsGain \notin {1, 4, 16, 64}
    \/ Has(options, "proximityGain") /\ options.proximityGain \notin {1, 2, 4, 8}

\* C1: a configure call that supplies an alsGain outside {1,4,16,64} or a
\* proximityGain outside {1,2,4,8} raises an error, leaves the stored alsGain
\* and proximityGain as they were and writes nothing to CONTROLONE.
C1_BadGainRejectedUnchanged ==
    [][(last'.op = "configure" /\ BadGain(last'.options))
         => /\ last'.thrown # "none"
            /\ configuration'.alsGain = configuration.alsGain
            /\ configuration'.proximityGain = configuration.proximityGain
            /\ WritesTo(last'.trace, Register.CONTROLONE) = {}]_vars

\* the constructor failed in its reset writes, in its identity read, or on the
\* identity it read
EarlyFailure ==
    /\ last.op = "constructor"
    /\ last.thrown # "none"
    /\ \/ \E i \in 1..Len(last.trace) : i <= 3 /\ ~last.trace[i].ok
       \/ last.id # ExpectedID

\* C2: when construction fails on a transport fault in the reset writes or in
\* the identity read, or on an identity other than 0xAB, the bus channel the
\* constructor acquired is closed when the error reaches the caller, whatever
\* the bus does on later writes.
C2_ChannelReleasedOnFailure == EarlyFailure => channel = "closed"

\* C3: after a successful construction the stored alsIntegrationCycles is in
\* 1..256 and maxCount is 1025 times it, never 0, whatever configure calls
\* were made; a configure call with alsIntegrationCycles outside 1..256 is
\* rejected, writes nothing to ATIME and leaves maxCount as it was.
C3_CyclesInRange ==
    /\ [](phase = "ready"
            => /\ configuration.alsIntegrationCycles \in 1..256
               /\ maxCount = 1025 * configuration.alsIntegrationCycles
               /\ maxCount # 0)
    /\ [][(/\ last'.op = "configure"
           /\ Has(last'.options, "alsIntegrationCycles")
           /\ last'.options.alsIntegrationCycles \notin 1..256)
            => /\ last'.thrown # "none"
               /\ WritesTo(last'.trace, Register.ATIME) = {}
               /\ maxCount' = maxCount]_vars

\* C4: after a successful construction, whatever configure calls were made and
\* however they ended, enabled.AIEN is false exactly when the stored
\* alsThresholdLow is 0 and the stored alsThresholdHigh is 0xFFFF.
C4_InterruptEnableFollowsThresholds ==
    phase = "ready"
      => (configuration.enabled.AIEN
            <=> ~(configuration.alsThresholdLow = 0 /\ configuration.alsThresholdHigh = 65535))

\* C5: after a successful construction and configure calls that returned or
\* raised a validation error, the value last written to ENABLE is the packing
\* of the stored enabled flags.
C5_EnableRegisterMirrorsFlags ==
    (phase = "ready" /\ closeCalls = 0)
      => chip[Register.ENABLE] = PackEnable(configuration.enabled)

\* C6: a close() call made after an earlier close() call issues no bus
\* transaction, releases nothing and raises no error.
C6_CloseIdempotent ==
    (last.op = "close" /\ closeCalls >= 2)
      => /\ last.trace = <<>>
         /\ last.released = {}
         /\ last.thrown = "none"

\* C7: sample() with the stored power-on flag false returns undefined and
\* issues no bus transaction, whatever the STATUS register holds.
C7_SampleWhenOffReturnsNothing ==
    (last.op = "sample" /\ ~configuration.enabled.PON)
      => /\ last.result.kind = "undefined"
         /\ ~last.result.lightmeter
         /\ last.trace = <<>>
         /\ last.thrown = "none"

C7_Witness ==
    /\ last.op = "sample"
    /\ ~configuration.enabled.PON
    /\ last.status % 2 = 1
    /\ last.result.kind = "undefined"
    /\ io

InUnitInterval(fraction) == fraction.den > 0 /\ 0 <= fraction.num /\ fraction.num <= fraction.den

\* C8: a lightmeter returned by sample() has clear, red, green and blue equal
\* to the raw channel count over maxCount, each in [0, 1].
C8_LightmeterInUnitInterval ==
    (last.op = "sample" /\ last.result.lightmeter)
      => /\ last.result.clear = Fraction(last.raw[1], maxCount)
         /\ last.result.red = Fraction(last.raw[2], maxCount)
         /\ last.result.green = Fraction(last.raw[3], maxCount)
         /\ last.result.blue = Fraction(last.raw[4], maxCount)
         /\ InUnitInterval(last.result.clear)
         /\ InUnitInterval(last.result.red)
         /\ InUnitInterval(last.result.green)
         /\ InUnitInterval(last.result.blue)

\* the stored ALS-enable flag is true and STATUS bit 0 is set
FreshALS == configuration.enabled.AEN /\ last.status % 2 = 1

BurstReads == {i \in 1..Len(last.trace) :
                 last.trace[i].op = "readBuffer" /\ last.trace[i].reg = Register.CDATAL}

\* C9 as stated: with the stored power-on flag true, sample() always returns
\* an object, which has a lightmeter exactly when ALS is enabled and STATUS
\* bit 0 is set, and the CDATAL burst read is issued exactly then.
C9_AlwaysReturnsObject ==
    (last.op = "sample" /\ configuration.enabled.PON)
      => /\ last.result.kind = "object"
         /\ last.result.lightmeter <=> FreshALS
         /\ (BurstReads # {}) <=> FreshALS

\* C9 amended: with the stored power-on flag true, a sample() that returns
\* returns an object, which has a lightmeter exactly when ALS is enabled and
\* STATUS bit 0 is set; the CDATAL burst read is issued, once, exactly when
\* the STATUS read succeeded with ALS enabled and bit 0 set; and sample()
\* raises exactly when the driver is closed or a transaction faults.
C9_ReturnsObjectUnlessRaised ==
    (last.op = "sample" /\ configuration.enabled.PON)
      => /\ last.thrown = "none"
            => /\ last.result.kind = "object"
               /\ last.result.lightmeter <=> FreshALS
         /\ (BurstReads # {})
              <=> (FreshALS /\ Len(last.trace) >= 1 /\ last.trace[1].ok)
         /\ Cardinality(BurstReads) <= 1
         /\ (last.thrown # "none")
              <=> (~io \/ \E i \in 1..Len(last.trace) : ~last.trace[i].ok)
         /\ last.thrown # "none" => last.result.kind = "none"

C9_Witness ==
    /\ last.op = "sample"
    /\ configuration.enabled.PON
    /\ last.thrown = "none"
    /\ last.result.kind = "object"
    /\ last.result.lightmeter
    /\ BurstReads # {}

LegalPersistence == {0, 1, 2, 3} \cup {5 * k : k \in 1..12}

\* the 4-bit code of a legal ALS persistence
PersistenceCode(p) == IF p <= 3 THEN p ELSE (p \div 5) + 3

\* C10: a configure call that supplies alsThresholdPersistence p writes the
\* code p for p in 0..3 and p/5+3 for p in {5,10,...,60} in the low 4 bits of
\* PERS; for every other p it raises a RangeError, leaves the stored
\* alsThresholdPersistence as it was and writes nothing to PERS.
C10_PersistenceEncoding ==
    [][(last'.op = "configure" /\ Has(last'.options, "alsThresholdPersistence"))
         => LET p == last'.options.alsThresholdPersistence
                writes == WritesTo(last'.trace, Register.PERS)
            IN  IF p \in LegalPersistence
                THEN /\ \A i \in writes : last'.trace[i].val % 16 = PersistenceCode(p)
                     /\ last'.thrown = "none" => Cardinality(writes) = 1
                     /\ configuration'.alsThresholdPersistence = p
                ELSE /\ ErrorClass(last'.thrown) = "RangeError"
                     /\ last'.thrown = "invalid alsThresholdPersistence"
                     /\ configuration'.alsThresholdPersistence
                          = configuration.alsThresholdPersistence
                     /\ writes = {}]_vars

C10_Witness ==
    /\ last.op = "configure"
    /\ last.options.supplied = {"alsThresholdPersistence"}
    /\ last.options.alsThresholdPersistence = 4
    /\ last.thrown = "invalid alsThresholdPersistence"
    /\ last.trace = <<>>
    /\ configuration.alsThresholdPersistence = 1

AllOk(trace) == \A i \in 1..Len(trace) : trace[i].ok

\* C11: a configure call that supplies an alsIntegrationCycles c in 1..256 on
\* a bus that does not fault returns, writes 256 - c to ATIME (once), sets
\* maxCount to 1025 * c and stores c.
C11_CyclesEncoding ==
    [][(/\ last'.op = "configure"
        /\ Has(last'.options, "alsIntegrationCycles")
        /\ last'.options.alsIntegrationCycles \in 1..256
        /\ AllOk(last'.trace))
         => LET c == last'.options.alsIntegrationCycles
                writes == WritesTo(last'.trace, Register.ATIME)
            IN  /\ last'.thrown = "none"
                /\ Cardinality(writes) = 1
                /\ \A i \in writes : last'.trace[i].val = 256 - c
                /\ chip'[Register.ATIME] = 256 - c
                /\ maxCount' = 1025 * c
                /\ configuration'.alsIntegrationCycles = c]_vars

C11_Witness ==
    /\ last.op = "configure"
    /\ Has(last.options, "alsIntegrationCycles")
    /\ last.options.alsIntegrationCycles = 256
    /\ last.thrown = "none"
    /\ chip[Register.ATIME] = 0
    /\ maxCount = 262400

\* the stored options, by the name of the option that sets them
Stored(c) ==
    [enableALS |-> c.enabled.AEN, on |-> c.enabled.PON,
     alsIntegrationCycles |-> c.alsIntegrationCycles,
     alsGain |-> c.alsGain, proximityGain |-> c.proximityGain,
     alsThresholdHigh |-> c.alsThresholdHigh, alsThresholdLow |-> c.alsThresholdLow,
     alsThresholdPersistence |-> c.alsThresholdPersistence,
     proximityThresholdPersistence |-> c.proximityThresholdPersistence]

\* C12: a configure call that returns leaves every stored option it was not
\* given as it was, GEN, PIEN, WEN and PEN included; AIEN changes only in a
\* call that was given a threshold bound.
C12_UnsuppliedOptionsKept ==
    [][(last'.op = "configure" /\ last'.thrown = "none")
         => /\ \A name \in OptionNames \ last'.options.supplied :
                 Stored(configuration')[name] = Stored(configuration)[name]
            /\ \A flag \in {"GEN", "PIEN", "WEN", "PEN"} :
                 configuration'.enabled[flag] = configuration.enabled[flag]
            /\ configuration'.enabled.AIEN # configuration.enabled.AIEN
                 => (Has(last'.options, "alsThresholdLow")
                     \/ Has(last'.options, "alsThresholdHigh"))
            /\ configuration'.unset = configuration.unset]_vars

C12_Witness ==
    /\ last.op = "configure"
    /\ last.thrown = "none"
    /\ last.options.supplied = {"alsThresholdLow"}
    /\ configuration.alsThresholdLow = 5
    /\ configuration.enabled.AIEN
    /\ configuration.alsGain = 4
    /\ ~configuration.enabled.PON

\* the options whose supply lets configure write a register
OptionsOfRegister(reg) ==
    CASE reg = Register.CONTROLONE -> {"alsGain", "proximityGain"}
      [] reg = Register.ATIME -> {"alsIntegrationCycles"}
      [] reg = Register.AILTL -> {"alsThresholdLow"}
      [] reg = Register.AIHTL -> {"alsThresholdHigh"}
      [] reg = Register.PERS -> {"alsThresholdPersistence", "proximityThresholdPersistence"}
      [] reg = Register.ENABLE -> {"on", "enableALS", "alsThresholdLow", "alsThresholdHigh"}

\* C13: a configure call writes CONTROLONE, ATIME, AILTL, AIHTL, PERS or
\* ENABLE only if it was given an option of that register, writes each at
\* most once and writes no other register; a call given no option issues no
\* bus transaction.
C13_WritesOnlyForSuppliedOptions ==
    last.op = "configure"
      => /\ \A i \in 1..Len(last.trace) :
              IsWrite(last.trace[i]) => last.trace[i].reg \in WritableRegisters
         /\ \A reg \in WritableRegisters :
              /\ WritesTo(last.trace, reg) # {}
                   => OptionsOfRegister(reg) \cap last.options.supplied # {}
              /\ Cardinality(WritesTo(last.trace, reg)) <= 1
         /\ last.options.supplied = {} => last.trace = <<>>

C13_Witness ==
    /\ last.op = "configure"
    /\ last.options.supplied = {"alsGain"}
    /\ last.thrown = "none"
    /\ Len(last.trace) = 1
    /\ WritesTo(last.trace, Register.CONTROLONE) = {1}

\* C14: when the constructor returns, the stored configuration is PON, AEN,
\* not AIEN, 10 integration cycles (maxCount 10250), alsGain 1, thresholds 0
\* and 0xFFFF, both persistences 1; the chip holds ENABLE = 3, ATIME = 246,
\* PERS = 0x11, CONTROLONE = 0; and the bus saw ENABLE = 0, ENABLE = 1 and the
\* ID read, in this order, before any write of the defaults.
C14_DefaultsAfterConstruction ==
    (last.op = "constructor" /\ last.thrown = "none")
      => /\ configuration.enabled
              = [GEN |-> FALSE, PIEN |-> FALSE, AIEN |-> FALSE, WEN |-> FALSE,
                 PEN |-> FALSE, AEN |-> TRUE, PON |-> TRUE]
         /\ configuration.alsIntegrationCycles = 10
         /\ maxCount = 10250
         /\ configuration.alsGain = 1
         /\ configuration.alsThresholdLow = 0
         /\ configuration.alsThresholdHigh = 65535
         /\ configuration.alsThresholdPersistence = 1
         /\ configuration.proximityThresholdPersistence = 1
         /\ configuration.unset = {}
         /\ chip[Register.ENABLE] = 3
         /\ chip[Register.ATIME] = 246
         /\ chip[Register.PERS] = 17
         /\ chip[Register.CONTROLONE] = 0
         /\ Len(last.trace) > 3
         /\ last.trace[1] = [op |-> "writeUint8", reg |-> Register.ENABLE, val |-> 0, ok |-> TRUE]
         /\ last.trace[2] = [op |-> "writeUint8", reg |-> Register.ENABLE, val |-> 1, ok |-> TRUE]
         /\ last.trace[3] = [op |-> "readUint8", reg |-> Register.ID, val |-> ExpectedID, ok |-> TRUE]
         /\ \A reg \in WritableRegisters \ {Register.ENABLE} :
              /\ WritesTo(last.trace, reg) # {}
              /\ \A i \in WritesTo(last.trace, reg) : i > 3
         /\ WritesTo(last.trace, Register.ENABLE) = {1, 2, Len(last.trace)}

C14_Witness ==
    /\ last.op = "constructor"
    /\ last.thrown = "none"
    /\ phase = "ready"
    /\ monitor
    /\ chip[Register.ENABLE] = 3
    /\ configuration.alsIntegrationCycles = 10

ClearReads(trace) ==
    {i \in 1..Len(trace) : trace[i].op = "readUint8" /\ trace[i].reg = ClearInterrupt}

\* C15: in a configure call that was given alsThresholdLow or alsThresholdHigh
\* and returns, the bus sees the threshold writes (AILTL before AIHTL), then
\* one read of 0xE7, then one ENABLE write whose AIEN bit is the recomputed
\* flag; the ENABLE write is the last transaction of the call.
C15_ThresholdTransactionOrder ==
    (/\ last.op = "configure"
     /\ last.thrown = "none"
     /\ (Has(last.options, "alsThresholdLow") \/ Has(last.options, "alsThresholdHigh")))
      => LET lows == WritesTo(last.trace, Register.AILTL)
             highs == WritesTo(last.trace, Register.AIHTL)
             clears == ClearReads(last.trace)
             enables == WritesTo(last.trace, Register.ENABLE)
         IN  /\ Cardinality(lows) = (IF Has(last.options, "alsThresholdLow") THEN 1 ELSE 0)
             /\ Cardinality(highs) = (IF Has(last.options, "alsThresholdHigh") THEN 1 ELSE 0)
             /\ \A i \in lows : last.trace[i].val = configuration.alsThresholdLow
             /\ \A i \in highs : last.trace[i].val = configuration.alsThresholdHigh
             /\ \A i \in lows, j \in highs : i < j
             /\ Cardinality(clears) = 1
             /\ \A i \in lows \cup highs, j \in clears : i < j
             /\ enables = {Len(last.trace)}
             /\ \A i \in clears, j \in enables : i < j
             /\ \A j \in enables :
                  ((last.trace[j].val \div 16) % 2 = 1)
                    <=> ~(configuration.alsThresholdLow = 0
                          /\ configuration.alsThresholdHigh = 65535)

C15_Witness ==
    /\ last.op = "configure"
    /\ last.thrown = "none"
    /\ last.options.supplied = {"alsThresholdLow", "alsThresholdHigh"}
    /\ Len(last.trace) = 4
    /\ last.trace[4].val = 19

\* C16: the constructor creates the alert input exactly when it is given both
\* alert and onAlert; every edge delivered to the handler causes one read of
\* 0xE7 and then one invocation of onAlert; once close() has been called, no
\* edge causes a bus read or an invocation.
C16_AlertWiring ==
    /\ (last.op = "constructor" /\ last.thrown = "none")
         => /\ monitor <=> (last.wiring.alert /\ last.wiring.onAlert)
            /\ (pin = "open") <=> monitor
    /\ (last.op = "alert" /\ closeCalls = 0)
         => /\ Len(last.trace) = 1
            /\ ClearReads(last.trace) = {1}
            /\ last.trace[1].ok
            /\ last.called = 1
    /\ (last.op = "alert" /\ closeCalls > 0)
         => /\ last.trace = <<>>
            /\ last.called = 0

\* the 2-bit codes of the gains
AlsGainCode(g) == CASE g = 1 -> 0 [] g = 4 -> 1 [] g = 16 -> 2 [] g = 64 -> 3
ProximityGainCode(g) == CASE g = 1 -> 0 [] g = 2 -> 1 [] g = 4 -> 2 [] g = 8 -> 3

\* C17: a configure call that was given a gain and returns writes to
\* CONTROLONE, once, the byte with the code of the stored alsGain in bits 0-1,
\* the code of the stored proximityGain in bits 2-3 and 0 elsewhere, and the
\* configuration accessor then reports the gains given.
C17_GainPacking ==
    (/\ last.op = "configure"
     /\ last.thrown = "none"
     /\ (Has(last.options, "alsGain") \/ Has(last.options, "proximityGain")))
      => LET writes == WritesTo(last.trace, Register.CONTROLONE)
             reported == configurationGetter(Self)
         IN  /\ Cardinality(writes) = 1
             /\ reported.alsGain \in {1, 4, 16, 64}
             /\ reported.proximityGain \in {1, 2, 4, 8}
             /\ \A i \in writes :
                  /\ last.trace[i].val % 4 = AlsGainCode(reported.alsGain)
                  /\ (last.trace[i].val \div 4) % 4 = ProximityGainCode(reported.proximityGain)
                  /\ last.trace[i].val \div 16 = 0
                  /\ chip[Register.CONTROLONE] = last.trace[i].val
             /\ Has(last.options, "alsGain") => reported.alsGain = last.options.alsGain
             /\ Has(last.options, "proximityGain")
                  => reported.proximityGain = last.options.proximityGain

C17_Witness ==
    /\ last.op = "configure"
    /\ last.thrown = "none"
    /\ last.options.supplied = {"alsGain", "proximityGain"}
    /\ configurationGetter(Self).alsGain = 4
    /\ configurationGetter(Self).proximityGain = 8
    /\ chip[Register.CONTROLONE] = 13

\* every option supplied has a legal value
AllLegal(options) ==
    /\ ~BadGain(options)
    /\ Has(options, "alsIntegrationCycles") => options.alsIntegrationCycles \in 1..256
    /\ Has(options, "alsThresholdLow") => options.alsThresholdLow \in 0..65535
    /\ Has(options, "alsThresholdHigh") => options.alsThresholdHigh \in 0..65535
    /\ Has(options, "alsThresholdPersistence")
         => options.alsThresholdPersistence \in LegalPersistence
    /\ Has(options, "proximityThresholdPersistence")
         => options.proximityThresholdPersistence \in 0..15

\* C18: whatever configure calls came before, rejected ones included, a
\* configure call whose supplied options are all legal returns, on a bus that
\* does not fault.
C18_RejectionNotSticky ==
    (last.op = "configure" /\ AllLegal(last.options) /\ AllOk(last.trace))
      => last.thrown = "none"

\* C19: after a successful construction and configure calls that returned or
\* raised a validation error, the value last written to PERS is the stored
\* proximityThresholdPersistence in the high 4 bits and the code of the stored
\* alsThresholdPersistence in the low 4 bits.
C19_PersistenceRegisterMirrorsStored ==
    phase = "ready"
      => chip[Register.PERS]
           = configuration.proximityThresholdPersistence * 16
               + PersistenceCode(configuration.alsThresholdPersistence)

\* C20: in a configure call that returns, every value passed to a write of
\* ENABLE, ATIME, PERS or CONTROLONE is in 0..255 and every value passed to a
\* write of AILTL or AIHTL is in 0..65535; the ATIME value is never 256.
C20_WrittenValuesFitRegisters ==
    (last.op = "configure" /\ last.thrown = "none")
      => \A i \in 1..Len(last.trace) :
           IsWrite(last.trace[i])
             => /\ last.trace[i].val >= 0
                /\ last.trace[i].val < (IF last.trace[i].reg \in {Register.AILTL, Register.AIHTL}
                                        THEN 65536 ELSE 256)

====
